---- MODULE Spec2Model ----
(***************************************************************************)
(* A model of pmdfonttool (src/main.rs): the glyph file-name codec, the    *)
(* build command (directory scan, row packing, atlas copy, output files)   *)
(* the generate command (slicing an atlas by dictionary records) and the   *)
(* from_truetype command (one glyph image per rasterized character).       *)
(*                                                                         *)
(* Text is modelled as a sequence of one-character strings so that         *)
(* formatting, splitting and parsing are computed character by character.  *)
(***************************************************************************)
EXTENDS Integers, Sequences, FiniteSets, TLC

VARIABLES
    \* ---- file-name codec (generate's format!, build's split and parse)
    c_pc,            \* "start" | "named" | "done"
    c_meta,          \* the metadata of one dictionary record
    c_name,          \* the file name generate wrote for it
    c_out,           \* what build's decode made of that name
    \* ---- build
    overflow_checks, \* the build profile: TRUE panics on integer overflow
    pc,              \* "setup" | "scan" | "pack" | "copy" | "write_dic"
                     \*   | "write_img" | "done"
    dir,             \* the input directory: indexes into Pool
    unread,          \* entries read_dir has not yielded yet
    last_file,       \* char_path of the entry being processed (0: none)
    chars_data,      \* BTreeMap<u16, CharData>
    todo,            \* keys the packing loop has not visited yet
    chars,           \* Vec<(KandChar, image)>
    atlas_width, max_width, lower_y, pos_x, pos_y,
    atlas,           \* the atlas ImageBuffer and what was copied into it
    files,           \* output files this run created
    result,          \* "running" | "ok" | "err" | "panic"
    err,             \* which error build returned
    err_at,          \* the pc at which it returned
    wrapped,         \* some u16 operation wrapped around (release profile)
    \* ---- generate
    g_pc,            \* "start" | "loop" | "done"
    g_image,         \* the decoded .img: [width, height]
    g_kand,          \* the decoded .dic: its sequence of KandChar
    g_next,          \* index of the next record of the loop
    g_out,           \* the glyph image files written so far
    g_result,        \* "running" | "ok" | "err"
    \* ---- from_truetype
    t_pc,            \* "start" | "loop" | "done"
    t_scale,         \* fp.scale
    t_todo,          \* chars_to_include not rasterized yet, ascending
    t_out,           \* the glyph image files written so far
    t_result         \* "running" | "ok" | "err" | "panic"

codecVars == <<c_pc, c_meta, c_name, c_out>>

packVars == <<todo, chars, atlas_width, max_width, lower_y, pos_x, pos_y>>

buildVars == <<overflow_checks, pc, dir, unread, last_file, chars_data,
               packVars, atlas, files, result, err, err_at, wrapped>>

genVars == <<g_pc, g_image, g_kand, g_next, g_out, g_result>>

ttVars == <<t_pc, t_scale, t_todo, t_out, t_result>>

vars == <<codecVars, buildVars, genVars, ttVars>>

-----------------------------------------------------------------------------
(* Machine integers *)

U16Modulus == 2 ^ 16
U16Top == U16Modulus - 1
I16Low == -(2 ^ 15)
I16Top == (2 ^ 15) - 1

-----------------------------------------------------------------------------
(* Text: Display of u16/i16, str::split, Path::file_stem, FromStr *)

DigitChars == <<"0", "1", "2", "3", "4", "5", "6", "7", "8", "9">>

RECURSIVE FormatNat(_)
FormatNat(n) ==
    IF n < 10 THEN <<DigitChars[n + 1]>>
    ELSE FormatNat(n \div 10) \o <<DigitChars[(n % 10) + 1]>>

\* Display of an i16 that drops the minus sign.
FormatIntUnsigned(n) == IF n < 0 THEN FormatNat(-n) ELSE FormatNat(n)

\* "{}" of a u16 or an i16: decimal digits, a leading '-' when negative.
FormatInt(n) == IF n < 0 THEN <<"-">> \o FormatNat(-n) ELSE FormatNat(n)

PngExt == <<".", "p", "n", "g">>

\* format!("{}_{}_{}_{}_{}_{}.png", char, unk1, unk2, distance, unk4, unk5)
FormatFileName(ch) ==
    FormatInt(ch.char) \o <<"_">> \o FormatInt(ch.unk1) \o <<"_">>
        \o FormatInt(ch.unk2) \o <<"_">> \o FormatInt(ch.distance) \o <<"_">>
        \o FormatInt(ch.unk4) \o <<"_">> \o FormatInt(ch.unk5) \o PngExt

IndexesOf(s, c) == {i \in 1..Len(s) : s[i] = c}

SetMin(S) == CHOOSE x \in S : \A y \in S : x <= y
SetMax(S) == CHOOSE x \in S : \A y \in S : x >= y

\* Path::file_stem: the name up to its last '.', the whole name when it has
\* none or when its only '.' is the first character.
FileStem(name) ==
    LET dots == IndexesOf(name, ".") IN
    IF dots = {} \/ SetMax(dots) = 1 THEN name
    ELSE SubSeq(name, 1, SetMax(dots) - 1)

\* str::split('_'): always at least one token, tokens may be empty.
RECURSIVE Split(_)
Split(s) ==
    LET seps == IndexesOf(s, "_") IN
    IF seps = {} THEN <<s>>
    ELSE <<SubSeq(s, 1, SetMin(seps) - 1)>>
             \o Split(SubSeq(s, SetMin(seps) + 1, Len(s)))

IsDigit(c) == \E d \in 1..10 : DigitChars[d] = c
DigitValue(c) == (CHOOSE d \in 1..10 : DigitChars[d] = c) - 1

ParseFailed == [ok |-> FALSE, val |-> 0]

\* The digit loop of from_str_radix(_, 10): checked multiply then checked
\* add (subtract for a negative number), failing on a non-digit or when the
\* value leaves lo..hi.
RECURSIVE Accumulate(_, _, _, _, _)
Accumulate(digits, acc, positive, lo, hi) ==
    IF digits = <<>> THEN [ok |-> TRUE, val |-> acc]
    ELSE IF ~IsDigit(Head(digits)) THEN ParseFailed
    ELSE LET d == DigitValue(Head(digits))
             next == IF positive THEN acc * 10 + d ELSE acc * 10 - d
         IN  IF next < lo \/ next > hi THEN ParseFailed
             ELSE Accumulate(Tail(digits), next, positive, lo, hi)

\* A parse whose arithmetic wraps around instead of being checked.
FromStrWrapping(text, signed, lo, hi) ==
    LET digits == IF Head(text) \in {"+", "-"} THEN Tail(text) ELSE text
        r == Accumulate(digits, 0, TRUE, 0, 100 * hi)
        v == IF Head(text) = "-" THEN -r.val ELSE r.val
    IN  IF text = <<>> \/ digits = <<>> \/ ~r.ok THEN ParseFailed
        ELSE IF Head(text) = "-" /\ ~signed THEN ParseFailed
        ELSE [ok |-> TRUE, val |-> lo + ((v - lo) % (hi - lo + 1))]

\* u16::from_str (signed = FALSE) and i16::from_str (signed = TRUE).
FromStr(text, signed, lo, hi) ==
    IF text = <<>> THEN ParseFailed
    ELSE IF Head(text) \in {"+", "-"} /\ Len(text) = 1 THEN ParseFailed
    ELSE IF Head(text) = "+" THEN Accumulate(Tail(text), 0, TRUE, lo, hi)
    ELSE IF Head(text) = "-" /\ signed
        THEN Accumulate(Tail(text), 0, FALSE, lo, hi)
    ELSE Accumulate(text, 0, TRUE, lo, hi)

\* get_text_from_file_name followed by the parse: the i-th token of the
\* iterator, an error when the iterator is exhausted.
read_u16_from_splited(tokens, i) ==
    IF i > Len(tokens) THEN ParseFailed
    ELSE FromStr(tokens[i], FALSE, 0, U16Top)

read_i16_from_splited(tokens, i) ==
    IF i > Len(tokens) THEN ParseFailed
    ELSE FromStr(tokens[i], TRUE, I16Low, I16Top)

NoMeta ==
    [char |-> 0, unk1 |-> 0, unk2 |-> 0, distance |-> 0, unk4 |-> 0, unk5 |-> 0]

\* build's decoding of one directory entry's name: file_stem, split on '_',
\* six reads in order, each `?` returning the first error.
DecodeFileName(name) ==
    LET tokens == Split(FileStem(name))
        f1 == read_u16_from_splited(tokens, 1)
        f2 == read_i16_from_splited(tokens, 2)
        f3 == read_i16_from_splited(tokens, 3)
        f4 == read_u16_from_splited(tokens, 4)
        f5 == read_u16_from_splited(tokens, 5)
        f6 == read_u16_from_splited(tokens, 6)
    IN  IF f1.ok /\ f2.ok /\ f3.ok /\ f4.ok /\ f5.ok /\ f6.ok
        THEN [ok |-> TRUE,
              meta |-> [char |-> f1.val, unk1 |-> f2.val, unk2 |-> f3.val,
                        distance |-> f4.val, unk4 |-> f5.val, unk5 |-> f6.val]]
        ELSE [ok |-> FALSE, meta |-> NoMeta]

NominalWidth == 512

-----------------------------------------------------------------------------
(* The files a build input directory is drawn from: a name and the image   *)
(* the file holds (ok = FALSE: not a decodable image). Names of the form   *)
(* generate and from_truetype write, and names edited by hand.             *)

Pool == <<
    \* 65_0_0_10_10_10.png
    [name |-> <<"6", "5", "_", "0", "_", "0", "_", "1", "0", "_", "1", "0", "_", "1", "0", ".", "p", "n", "g">>,
     image |-> [ok |-> TRUE, width |-> 10, height |-> 20]],
    \* 66_-1_2_500_10_10.png
    [name |-> <<"6", "6", "_", "-", "1", "_", "2", "_", "5", "0", "0", "_", "1", "0", "_", "1", "0", ".", "p", "n", "g">>,
     image |-> [ok |-> TRUE, width |-> 500, height |-> 20]],
    \* 67_0_-3_5_10_10.png
    [name |-> <<"6", "7", "_", "0", "_", "-", "3", "_", "5", "_", "1", "0", "_", "1", "0", ".", "p", "n", "g">>,
     image |-> [ok |-> TRUE, width |-> 5, height |-> 5]],
    \* 68_0_0_8_0_0.png
    [name |-> <<"6", "8", "_", "0", "_", "0", "_", "8", "_", "0", "_", "0", ".", "p", "n", "g">>,
     image |-> [ok |-> TRUE, width |-> 502, height |-> 20]],
    \* 70_0_0_8_10_10.png
    [name |-> <<"7", "0", "_", "0", "_", "0", "_", "8", "_", "1", "0", "_", "1", "0", ".", "p", "n", "g">>,
     image |-> [ok |-> TRUE, width |-> 65520, height |-> 1]],
    \* 71_0_0_8_10_10.png
    [name |-> <<"7", "1", "_", "0", "_", "0", "_", "8", "_", "1", "0", "_", "1", "0", ".", "p", "n", "g">>,
     image |-> [ok |-> TRUE, width |-> 65535, height |-> 1]],
    \* 72_0_0_8_10_10.png
    [name |-> <<"7", "2", "_", "0", "_", "0", "_", "8", "_", "1", "0", "_", "1", "0", ".", "p", "n", "g">>,
     image |-> [ok |-> TRUE, width |-> 600, height |-> 40000]],
    \* 73_0_0_8_10_10.png
    [name |-> <<"7", "3", "_", "0", "_", "0", "_", "8", "_", "1", "0", "_", "1", "0", ".", "p", "n", "g">>,
     image |-> [ok |-> TRUE, width |-> 600, height |-> 40000]],
    \* 74_1_1_1_10_10.png
    [name |-> <<"7", "4", "_", "1", "_", "1", "_", "1", "_", "1", "0", "_", "1", "0", ".", "p", "n", "g">>,
     image |-> [ok |-> TRUE, width |-> 1, height |-> 1]],
    \* 065_0_0_10_10_10.png
    [name |-> <<"0", "6", "5", "_", "0", "_", "0", "_", "1", "0", "_", "1", "0", "_", "1", "0", ".", "p", "n", "g">>,
     image |-> [ok |-> TRUE, width |-> 3, height |-> 3]],
    \* 67_0_-3_5_10_10_old.png
    [name |-> <<"6", "7", "_", "0", "_", "-", "3", "_", "5", "_", "1", "0", "_", "1", "0", "_", "o", "l", "d", ".", "p", "n", "g">>,
     image |-> [ok |-> TRUE, width |-> 5, height |-> 5]],
    \* 75_0_0_8_10.png
    [name |-> <<"7", "5", "_", "0", "_", "0", "_", "8", "_", "1", "0", ".", "p", "n", "g">>,
     image |-> [ok |-> TRUE, width |-> 4, height |-> 4]],
    \* 65536_0_0_8_10_10.png
    [name |-> <<"6", "5", "5", "3", "6", "_", "0", "_", "0", "_", "8", "_", "1", "0", "_", "1", "0", ".", "p", "n", "g">>,
     image |-> [ok |-> TRUE, width |-> 4, height |-> 4]],
    \* 76_-32769_0_8_10_10.png
    [name |-> <<"7", "6", "_", "-", "3", "2", "7", "6", "9", "_", "0", "_", "8", "_", "1", "0", "_", "1", "0", ".", "p", "n", "g">>,
     image |-> [ok |-> TRUE, width |-> 4, height |-> 4]],
    \* 76_0_32768_8_10_10.png
    [name |-> <<"7", "6", "_", "0", "_", "3", "2", "7", "6", "8", "_", "8", "_", "1", "0", "_", "1", "0", ".", "p", "n", "g">>,
     image |-> [ok |-> TRUE, width |-> 4, height |-> 4]],
    \* 76_0_0_-1_10_10.png
    [name |-> <<"7", "6", "_", "0", "_", "0", "_", "-", "1", "_", "1", "0", "_", "1", "0", ".", "p", "n", "g">>,
     image |-> [ok |-> TRUE, width |-> 4, height |-> 4]],
    \* 76_0_0_8_x_10.png
    [name |-> <<"7", "6", "_", "0", "_", "0", "_", "8", "_", "x", "_", "1", "0", ".", "p", "n", "g">>,
     image |-> [ok |-> TRUE, width |-> 4, height |-> 4]],
    \* 76_0_0_8_10_.png
    [name |-> <<"7", "6", "_", "0", "_", "0", "_", "8", "_", "1", "0", "_", ".", "p", "n", "g">>,
     image |-> [ok |-> TRUE, width |-> 4, height |-> 4]],
    \* 76_0_0_8_10_1.5.png
    [name |-> <<"7", "6", "_", "0", "_", "0", "_", "8", "_", "1", "0", "_", "1", ".", "5", ".", "p", "n", "g">>,
     image |-> [ok |-> TRUE, width |-> 4, height |-> 4]],
    \* 77_0_0_8_10_10.png
    [name |-> <<"7", "7", "_", "0", "_", "0", "_", "8", "_", "1", "0", "_", "1", "0", ".", "p", "n", "g">>,
     image |-> [ok |-> FALSE, width |-> 0, height |-> 0]],
    \* 78_0_0_8_10_10.png
    [name |-> <<"7", "8", "_", "0", "_", "0", "_", "8", "_", "1", "0", "_", "1", "0", ".", "p", "n", "g">>,
     image |-> [ok |-> TRUE, width |-> 70000, height |-> 1]],
    \* 79_0_0_8_10_10.png
    [name |-> <<"7", "9", "_", "0", "_", "0", "_", "8", "_", "1", "0", "_", "1", "0", ".", "p", "n", "g">>,
     image |-> [ok |-> TRUE, width |-> 1, height |-> 65530]]
>>

PoolIds == 1..Len(Pool)

\* How many files the input directory holds at most.
MaxFiles == 3

-----------------------------------------------------------------------------
(* u16 arithmetic: the exact value, wrapped, and whether it left the range *)

Wrap16(n) == n % U16Modulus
Overflows16(n) == n < 0 \/ n > U16Top

Max2(a, b) == IF a >= b THEN a ELSE b
Min2(a, b) == IF a <= b THEN a ELSE b

-----------------------------------------------------------------------------
(* build, step 1: reading the input directory *)

NoChars == [c \in {} |-> 0]

\* BTreeMap::insert never reporting an earlier entry.
InsertSilently(map, char_id, data) ==
    [map |-> [c \in (DOMAIN map) \cup {char_id} |->
                 IF c = char_id THEN data ELSE map[c]],
     replaced |-> FALSE]

\* chars_data.insert(char_id, CharData {..}): stores the value and reports
\* whether the key was already present (Some(_)).
InsertChar(map, char_id, data) ==
    [map |-> [c \in (DOMAIN map) \cup {char_id} |->
                 IF c = char_id THEN data ELSE map[c]],
     replaced |-> char_id \in DOMAIN map]

\* CharData built from the decoded name and the decoded image.
CharDataOf(meta, f) ==
    [glyth_width |-> Pool[f].image.width,
     glyth_height |-> Pool[f].image.height,
     xalign |-> meta.unk1, yalign |-> meta.unk2, distance |-> meta.distance,
     unk4 |-> meta.unk4, unk5 |-> meta.unk5, image |-> f]

RECURSIVE SortedSeq(_)
SortedSeq(S) ==
    IF S = {} THEN <<>> ELSE <<SetMin(S)>> \o SortedSeq(S \ {SetMin(S)})

NoAtlas == [exists |-> FALSE, width |-> 0, height |-> 0, layers |-> <<>>]

\* `return Err(..)` / a failed `?` at the current step.
Fail(kind) ==
    /\ result' = "err"
    /\ err' = kind
    /\ err_at' = pc
    /\ pc' = "done"

\* An arithmetic-overflow panic at the current step.
Panic ==
    /\ result' = "panic"
    /\ err' = "overflow"
    /\ err_at' = pc
    /\ pc' = "done"

\* The user puts a file into the input directory before running build.
AddFile(f) ==
    /\ pc = "setup"
    /\ f \notin dir
    /\ Cardinality(dir) < MaxFiles
    /\ dir' = dir \cup {f}
    /\ UNCHANGED <<codecVars, genVars, ttVars, overflow_checks, pc, unread, last_file,
                   chars_data, packVars, atlas, files, result, err, err_at,
                   wrapped>>

\* build starts: read_dir(&bp.input).
\* It is the head of the scan loop: a missing or unreadable input directory
\* makes it fail before the first iteration.
StartBuild ==
    /\ pc = "setup"
    /\ \E readable \in BOOLEAN :
           IF readable
           THEN /\ pc' = "scan"
                /\ unread' = dir
                /\ UNCHANGED <<result, err, err_at>>
           ELSE /\ pc' = "done"
                /\ result' = "err"
                /\ err' = "ReadDir"
                /\ err_at' = "scan"
                /\ UNCHANGED unread
    /\ UNCHANGED <<codecVars, genVars, ttVars, overflow_checks, dir,
                   last_file, chars_data, packVars, atlas, files, wrapped>>

\* One iteration of the read_dir loop, on whichever entry comes next.
ScanFile(f) ==
    /\ pc = "scan"
    /\ f \in unread
    /\ unread' = unread \ {f}
    /\ \E entry_ok \in BOOLEAN :
         LET dec == DecodeFileName(Pool[f].name)
             img == Pool[f].image
             ins == InsertChar(chars_data, dec.meta.char,
                               CharDataOf(dec.meta, f))
         IN  IF ~entry_ok
                 \* char_file_maybe? : the entry itself cannot be read
                 THEN Fail("ReadDir") /\ UNCHANGED <<last_file, chars_data>>
             ELSE /\ last_file' = f
                  /\ IF ~dec.ok
                         THEN Fail("MalformedName") /\ UNCHANGED chars_data
                     ELSE IF ~img.ok
                         THEN Fail("ImageDecode") /\ UNCHANGED chars_data
                     ELSE IF img.width > U16Top \/ img.height > U16Top
                         THEN Fail("GlythTooBig") /\ UNCHANGED chars_data
                     ELSE IF ins.replaced
                         THEN Fail("Duplicate") /\ chars_data' = ins.map
                     ELSE /\ chars_data' = ins.map
                          /\ UNCHANGED <<pc, result, err, err_at>>
    /\ UNCHANGED <<codecVars, genVars, ttVars, overflow_checks, dir,
                   packVars, atlas, files, wrapped>>

\* The directory is exhausted: the locals of step 2 are initialised and the
\* map is iterated in ascending key order.
ScanDone ==
    /\ pc = "scan"
    /\ unread = {}
    /\ pc' = "pack"
    /\ todo' = SortedSeq(DOMAIN chars_data)
    /\ chars' = <<>>
    /\ atlas_width' = NominalWidth
    /\ max_width' = 0
    /\ lower_y' = 0
    /\ pos_x' = 0
    /\ pos_y' = 0
    /\ UNCHANGED <<codecVars, genVars, ttVars, overflow_checks, dir, unread, last_file,
                   chars_data, atlas, files, result, err, err_at, wrapped>>

-----------------------------------------------------------------------------
(* build, step 2: placing the glyphs and creating the atlas *)

\* if x_at_end_of_char >= atlas_width
StartsNewRow(x_at_end_of_char, width) == x_at_end_of_char >= width

\* The placement arithmetic of one loop iteration, in u16: the three sums
\* exactly, and the values the wrapping build computes.
PlaceStep(px, py, low, aw, w, h) ==
    LET x_end == px + w
        newrow == StartsNewRow(Wrap16(x_end), aw)
        sx == IF newrow THEN 0 ELSE px
        sy == IF newrow THEN low ELSE py
        bottom == sy + h
        next_x == sx + w
    IN  [start_x |-> sx, start_y |-> sy,
         lower_y |-> Max2(low, Wrap16(bottom)),
         pos_x |-> Wrap16(next_x),
         overflow |-> Overflows16(x_end) \/ Overflows16(bottom)
                          \/ Overflows16(next_x)]

\* KandChar { char, start_x, start_y, glyth_width, .. } of the loop body.
KandCharOf(char_id, data, sx, sy) ==
    [char |-> char_id, start_x |-> sx, start_y |-> sy,
     glyth_width |-> data.glyth_width, glyth_height |-> data.glyth_height,
     unk1 |-> data.xalign, unk2 |-> data.yalign, distance |-> data.distance,
     unk4 |-> data.unk4, unk5 |-> data.unk5]

\* One iteration of `for (char_id, char_data) in chars_data`.
PlaceChar ==
    /\ pc = "pack"
    /\ todo # <<>>
    /\ LET char_id == Head(todo)
           data == chars_data[char_id]
           st == PlaceStep(pos_x, pos_y, lower_y, atlas_width,
                           data.glyth_width, data.glyth_height)
       IN  IF st.overflow /\ overflow_checks
           THEN Panic /\ UNCHANGED <<packVars, wrapped>>
           ELSE /\ todo' = Tail(todo)
                /\ chars' = Append(chars,
                       [kand |-> KandCharOf(char_id, data, st.start_x, st.start_y),
                        image |-> data.image])
                /\ pos_x' = st.pos_x
                /\ pos_y' = st.start_y
                /\ lower_y' = st.lower_y
                /\ max_width' = Max2(max_width, data.glyth_width)
                /\ wrapped' = (wrapped \/ st.overflow)
                /\ UNCHANGED <<atlas_width, pc, result, err, err_at>>
    /\ UNCHANGED <<codecVars, genVars, ttVars, overflow_checks, dir, unread, last_file,
                   chars_data, atlas, files>>

\* ((v - 1) / 8 + 1) * 8 in u16: the wrapped value and whether the
\* subtraction or the multiplication left the range.
RoundUp8(v) ==
    LET minus1 == v - 1
        times8 == (Wrap16(minus1) \div 8 + 1) * 8
    IN  [val |-> Wrap16(times8),
         overflow |-> Overflows16(minus1) \/ Overflows16(times8)]

\* After the loop: the final dimensions and ImageBuffer::new.
CreateAtlas ==
    /\ pc = "pack"
    /\ todo = <<>>
    /\ LET w == RoundUp8(Max2(atlas_width, max_width))
           h == RoundUp8(lower_y)
       IN  IF (w.overflow \/ h.overflow) /\ overflow_checks
           THEN Panic /\ UNCHANGED <<packVars, wrapped, atlas>>
           ELSE /\ atlas_width' = w.val
                /\ lower_y' = h.val
                /\ atlas' = [exists |-> TRUE, width |-> w.val,
                             height |-> h.val, layers |-> <<>>]
                /\ wrapped' = (wrapped \/ w.overflow \/ h.overflow)
                /\ pc' = "copy"
                /\ UNCHANGED <<todo, chars, max_width, pos_x, pos_y, result,
                               err, err_at>>
    /\ UNCHANGED <<codecVars, genVars, ttVars, overflow_checks, dir, unread, last_file,
                   chars_data, files>>

\* A copy that does not check the destination's bounds.
CopyFitsUnchecked(at, kand) == TRUE

\* GenericImage::copy_from's bounds check (in u32): the image must fit in
\* the atlas at (x, y).
CopyFits(at, kand) ==
    /\ at.width >= kand.glyth_width + kand.start_x
    /\ at.height >= kand.glyth_height + kand.start_y

\* One iteration of `for (char_data, char_image) in &chars`.
CopyChar ==
    /\ pc = "copy"
    /\ Len(atlas.layers) < Len(chars)
    /\ LET item == chars[Len(atlas.layers) + 1] IN
       IF CopyFits(atlas, item.kand)
       THEN /\ atlas' = [atlas EXCEPT !.layers = Append(@, item)]
            /\ UNCHANGED <<pc, result, err, err_at>>
       ELSE Fail("CopyFrom") /\ UNCHANGED atlas
    /\ UNCHANGED <<codecVars, genVars, ttVars, overflow_checks, dir, unread, last_file,
                   chars_data, packVars, files, wrapped>>

-----------------------------------------------------------------------------
(* build, step 3: the output files. Creating or writing a file may fail;   *)
(* a failed write leaves the created file behind.                          *)

IoOutcomes == {"ok", "create_failed", "write_failed"}

WriteFile(name, outcome, next_pc) ==
    /\ files' = IF outcome = "create_failed" THEN files ELSE files \cup {name}
    /\ IF outcome = "ok"
       THEN /\ pc' = next_pc
            /\ result' = IF next_pc = "done" THEN "ok" ELSE result
            /\ UNCHANGED <<err, err_at>>
       ELSE Fail("Io")
    /\ UNCHANGED <<codecVars, genVars, ttVars, overflow_checks, dir, unread, last_file,
                   chars_data, packVars, atlas, wrapped>>

\* atlas.save("./test.png")
SaveTestPng ==
    /\ pc = "copy"
    /\ Len(atlas.layers) = Len(chars)
    /\ \E outcome \in IoOutcomes : WriteFile("test.png", outcome, "write_dic")

\* File::create(bp.dic_output) and kand_file.write
WriteDic ==
    /\ pc = "write_dic"
    /\ \E outcome \in IoOutcomes : WriteFile("dic_output", outcome, "write_img")

\* File::create(bp.img_output) and cte_image.encode_cte
WriteImg ==
    /\ pc = "write_img"
    /\ \E outcome \in IoOutcomes : WriteFile("img_output", outcome, "done")

-----------------------------------------------------------------------------
(* Pixels. Every pixel of every glyph image is distinct: pixel (i, j) of   *)
(* the image of file f is <<f, i, j>>. A new atlas is transparent; each    *)
(* copy overwrites the rectangle it covers.                                *)

Transparent == <<0, 0, 0>>
ImagePixel(f, i, j) == <<f, i, j>>

Covers(kand, x, y) ==
    /\ kand.start_x <= x /\ x < kand.start_x + kand.glyth_width
    /\ kand.start_y <= y /\ y < kand.start_y + kand.glyth_height

AtlasPixel(at, x, y) ==
    LET over == {k \in 1..Len(at.layers) : Covers(at.layers[k].kand, x, y)} IN
    IF over = {} THEN Transparent
    ELSE LET top == at.layers[SetMax(over)] IN
         ImagePixel(top.image, x - top.kand.start_x, y - top.kand.start_y)

\* generate's cte.image.crop(start_x, start_y, glyth_width, glyth_height):
\* the rectangle is clamped to the image, never rejected.
Crop(at, kand) ==
    LET x == Min2(kand.start_x, at.width)
        y == Min2(kand.start_y, at.height)
    IN  [x |-> x, y |-> y,
         width |-> Min2(kand.glyth_width, at.width - x),
         height |-> Min2(kand.glyth_height, at.height - y)]

SectionPixel(at, view, i, j) == AtlasPixel(at, view.x + i, view.y + j)

-----------------------------------------------------------------------------
(* generate: slicing a decoded atlas by the records of a decoded dictionary *)

\* How many records the dictionary holds at most.
MaxRecords == 2

\* One saved glyph image: its name, the record it was cut for and its size.
GlyphFile(ch, k, view) ==
    [name |-> FormatFileName(ch), from |-> k,
     width |-> view.width, height |-> view.height]

\* File::open and decode of both inputs, create_dir_all: any may fail.
GenOpen ==
    /\ g_pc = "start"
    /\ \E opened \in BOOLEAN :
           IF opened
           THEN g_pc' = "loop" /\ UNCHANGED g_result
           ELSE g_pc' = "done" /\ g_result' = "err"
    /\ UNCHANGED <<g_image, g_kand, g_next, g_out, codecVars, buildVars, ttVars>>

\* One iteration of `for char in kand.chars`: crop, name, save. A file of
\* the same name is overwritten.
GenChar ==
    /\ g_pc = "loop"
    /\ g_next <= Len(g_kand)
    /\ LET ch == g_kand[g_next]
           section == Crop(g_image, ch)
           file == GlyphFile(ch, g_next, section)
       IN  \E outcome \in IoOutcomes :
               /\ g_out' = IF outcome = "create_failed" THEN g_out
                           ELSE {o \in g_out : o.name # file.name} \cup {file}
               /\ IF outcome = "ok"
                  THEN g_next' = g_next + 1 /\ UNCHANGED <<g_pc, g_result>>
                  ELSE g_pc' = "done" /\ g_result' = "err"
                           /\ UNCHANGED g_next
    /\ UNCHANGED <<g_image, g_kand, codecVars, buildVars, ttVars>>

\* The loop is over: Ok(()).
GenDone ==
    /\ g_pc = "loop"
    /\ g_next > Len(g_kand)
    /\ g_pc' = "done"
    /\ g_result' = "ok"
    /\ UNCHANGED <<g_image, g_kand, g_next, g_out, codecVars, buildVars, ttVars>>

-----------------------------------------------------------------------------
(* from_truetype: one glyph image per character of the list, named from    *)
(* the rasterizer's metrics.                                               *)

\* How many distinct characters the character list holds at most.
MaxChars == 2

\* `as u16` and `as i16` of an integer: truncation to 16 bits.
AsU16(n) == n % U16Modulus
AsI16(n) == ((n - I16Low) % U16Modulus) + I16Low

\* `as i16` of an f32 given in quarters: truncation toward zero, saturated.
F32AsI16(quarters) ==
    LET t == IF quarters >= 0 THEN quarters \div 4 ELSE -((-quarters) \div 4)
    IN  IF t > I16Top THEN I16Top ELSE IF t < I16Low THEN I16Low ELSE t

\* -metric.ymin as i16 + fp.scale as i16 - metric.height as i16, in i16:
\* the wrapped value and whether the sum or the difference left the range.
TruetypeYAlign(metric, scale) ==
    LET sum == AsI16(-metric.ymin) + AsI16(scale)
        diff == AsI16(sum) - AsI16(metric.height)
    IN  [val |-> AsI16(diff),
         overflow |-> sum < I16Low \/ sum > I16Top
                          \/ diff < I16Low \/ diff > I16Top]

\* format!("{}_{}_{}_{}_10_10.png", char as u16, xmin as i16, .., advance
\* as i16)
TruetypeFileName(char, metric, scale) ==
    FormatInt(AsU16(char)) \o <<"_">> \o FormatInt(AsI16(metric.xmin))
        \o <<"_">> \o FormatInt(TruetypeYAlign(metric, scale).val)
        \o <<"_">> \o FormatInt(F32AsI16(metric.advance_width))
        \o <<"_", "1", "0", "_", "1", "0">> \o PngExt

\* The image saved for a glyph: the rasterized size, 1x1 when it is empty.
TruetypeImage(metric) ==
    IF metric.width # 0 /\ metric.height # 0
    THEN [width |-> metric.width, height |-> metric.height]
    ELSE [width |-> 1, height |-> 1]

\* What the rasterizer may return for a character (advance in quarters).
Metrics ==
    {[xmin |-> 0, ymin |-> 0, width |-> 0, height |-> 0, advance_width |-> 18],
     [xmin |-> 1, ymin |-> -4, width |-> 10, height |-> 14,
      advance_width |-> 45],
     [xmin |-> -1, ymin |-> 0, width |-> 8, height |-> 18,
      advance_width |-> -6],
     [xmin |-> 0, ymin |-> -30000, width |-> 4, height |-> 70000,
      advance_width |-> 200000]}

\* Target directory, character list and font are opened and read; each may
\* fail, and Font::from_bytes(..).unwrap() panics on a font it rejects.
TtOpen ==
    /\ t_pc = "start"
    /\ \E outcome \in {"ok", "err", "panic"} :
           IF outcome = "ok"
           THEN t_pc' = "loop" /\ UNCHANGED t_result
           ELSE t_pc' = "done" /\ t_result' = outcome
    /\ UNCHANGED <<t_scale, t_todo, t_out, codecVars, buildVars, genVars>>

\* One iteration of `for char in chars_to_include`: rasterize, name, save.
TtChar ==
    /\ t_pc = "loop"
    /\ t_todo # <<>>
    /\ \E metric \in Metrics, outcome \in IoOutcomes :
         LET char == Head(t_todo)
             img == TruetypeImage(metric)
             file == [name |-> TruetypeFileName(char, metric, t_scale),
                      width |-> img.width, height |-> img.height]
         IN  IF TruetypeYAlign(metric, t_scale).overflow /\ overflow_checks
             THEN /\ t_pc' = "done"
                  /\ t_result' = "panic"
                  /\ UNCHANGED <<t_todo, t_out>>
             ELSE /\ t_out' = IF outcome = "create_failed" THEN t_out
                              ELSE {o \in t_out : o.name # file.name}
                                       \cup {file}
                  /\ IF outcome = "ok"
                     THEN t_todo' = Tail(t_todo)
                              /\ UNCHANGED <<t_pc, t_result>>
                     ELSE t_pc' = "done" /\ t_result' = "err"
                              /\ UNCHANGED t_todo
    /\ UNCHANGED <<t_scale, codecVars, buildVars, genVars>>

\* The loop is over: Ok(()).
TtDone ==
    /\ t_pc = "loop"
    /\ t_todo = <<>>
    /\ t_pc' = "done"
    /\ t_result' = "ok"
    /\ UNCHANGED <<t_scale, t_todo, t_out, codecVars, buildVars, genVars>>

-----------------------------------------------------------------------------
(* Specifications *)

TtIdle ==
    /\ t_pc = "idle"
    /\ t_scale = 0
    /\ t_todo = <<>>
    /\ t_out = {}
    /\ t_result = "running"

GenIdle ==
    /\ g_pc = "idle"
    /\ g_image = [width |-> 0, height |-> 0]
    /\ g_kand = <<>>
    /\ g_next = 1
    /\ g_out = {}
    /\ g_result = "running"

CodecIdle ==
    /\ c_pc = "idle"
    /\ c_meta = NoMeta
    /\ c_name = <<>>
    /\ c_out = [ok |-> FALSE, meta |-> NoMeta]

BuildLocalsInit ==
    /\ dir = {}
    /\ unread = {}
    /\ last_file = 0
    /\ chars_data = NoChars
    /\ todo = <<>>
    /\ chars = <<>>
    /\ atlas_width = 0
    /\ max_width = 0
    /\ lower_y = 0
    /\ pos_x = 0
    /\ pos_y = 0
    /\ atlas = NoAtlas
    /\ files = {}
    /\ result = "running"
    /\ err = "none"
    /\ err_at = "none"
    /\ wrapped = FALSE

BuildIdle ==
    /\ pc = "idle"
    /\ BuildLocalsInit

\* The build command on a directory of at most MaxFiles files of Pool, as a
\* debug build (overflow_checks) or a release build.
Init ==
    /\ overflow_checks \in BOOLEAN
    /\ pc = "setup"
    /\ BuildLocalsInit
    /\ CodecIdle
    /\ GenIdle
    /\ TtIdle

Next ==
    \/ \E f \in PoolIds : AddFile(f)
    \/ StartBuild
    \/ \E f \in PoolIds : ScanFile(f)
    \/ ScanDone
    \/ PlaceChar
    \/ CreateAtlas
    \/ CopyChar
    \/ SaveTestPng
    \/ WriteDic
    \/ WriteImg

Spec == Init /\ [][Next]_vars

\* The codec alone: one record's metadata written as a name by generate,
\* then read back by build.
CharCodes == {0, 9, 65, 1000, U16Top}
Bearings == {I16Low, -10, -1, 0, 7, I16Top}
Advances == {0, 18, U16Top}
Reserved == {0, 10, U16Top}

CodecInit ==
    /\ c_pc = "start"
    /\ c_meta \in [char : CharCodes, unk1 : Bearings, unk2 : Bearings,
                   distance : Advances, unk4 : Reserved, unk5 : Reserved]
    /\ c_name = <<>>
    /\ c_out = [ok |-> FALSE, meta |-> NoMeta]
    /\ overflow_checks = FALSE
    /\ BuildIdle
    /\ GenIdle
    /\ TtIdle

\* generate names the glyph's file.
EncodeName ==
    /\ c_pc = "start"
    /\ c_name' = FormatFileName(c_meta)
    /\ c_pc' = "named"
    /\ UNCHANGED <<c_meta, c_out, buildVars, genVars, ttVars>>

\* build decodes the name of that file.
DecodeName ==
    /\ c_pc = "named"
    /\ c_out' = DecodeFileName(c_name)
    /\ c_pc' = "done"
    /\ UNCHANGED <<c_meta, c_name, buildVars, genVars, ttVars>>

CodecNext == EncodeName \/ DecodeName

SpecCodec == CodecInit /\ [][CodecNext]_vars

\* The generate command on a texture of one of a few sizes and a dictionary
\* of at most MaxRecords records, well-formed or not.
ImageSizes == {[width |-> 512, height |-> 24], [width |-> 512, height |-> 8],
               [width |-> 16, height |-> 16]}

Rects == {<<0, 0, 10, 20>>, <<10, 0, 500, 20>>, <<0, 20, 5, 4>>,
          <<510, 0, 5, 5>>, <<0, 20, 5, 5>>, <<12, 4, 8, 8>>}

Record(code, rect) ==
    [char |-> code, start_x |-> rect[1], start_y |-> rect[2],
     glyth_width |-> rect[3], glyth_height |-> rect[4],
     unk1 |-> -1, unk2 |-> 2, distance |-> rect[3], unk4 |-> 10, unk5 |-> 10]

Records == {Record(code, rect) : code \in {65, 66}, rect \in Rects}

GenInit ==
    /\ g_pc = "start"
    /\ g_image \in ImageSizes
    /\ g_kand \in UNION {[1..n -> Records] : n \in 0..MaxRecords}
    /\ g_next = 1
    /\ g_out = {}
    /\ g_result = "running"
    /\ overflow_checks = FALSE
    /\ BuildIdle
    /\ CodecIdle
    /\ TtIdle

GenNext == GenOpen \/ GenChar \/ GenDone

SpecGenerate == GenInit /\ [][GenNext]_vars

\* The from_truetype command on a list of at most MaxChars distinct
\* characters (code points), at the default scale or a large one, as a
\* debug or a release build.
CharPool == {32, 65, 66, 65601}
Scales == {18, 40000}

TtInit ==
    /\ t_pc = "start"
    /\ t_scale \in Scales
    /\ t_todo \in {SortedSeq(cs) : cs \in {c \in SUBSET CharPool :
                                            Cardinality(c) <= MaxChars}}
    /\ t_out = {}
    /\ t_result = "running"
    /\ overflow_checks \in BOOLEAN
    /\ BuildIdle
    /\ CodecIdle
    /\ GenIdle

TtNext == TtOpen \/ TtChar \/ TtDone

SpecTruetype == TtInit /\ [][TtNext]_vars

\* One run of the tool: main dispatches to one of the three commands.
ToolInit == Init \/ GenInit \/ TtInit

ToolNext == Next \/ GenNext \/ TtNext

SpecTool == ToolInit /\ [][ToolNext]_vars

-----------------------------------------------------------------------------
(* Claims *)

Right(kand) == kand.start_x + kand.glyth_width
Bottom(kand) == kand.start_y + kand.glyth_height

Overlap(a, b) ==
    /\ a.glyth_width > 0 /\ a.glyth_height > 0
    /\ b.glyth_width > 0 /\ b.glyth_height > 0
    /\ a.start_x < Right(b) /\ b.start_x < Right(a)
    /\ a.start_y < Bottom(b) /\ b.start_y < Bottom(a)

\* C1: once the atlas is created, no two placement rectangles overlap and
\* every placement rectangle lies inside the atlas.
C1_DisjointInsideAtlas ==
    atlas.exists =>
        /\ \A i, j \in 1..Len(chars) :
               i < j => ~Overlap(chars[i].kand, chars[j].kand)
        /\ \A i \in 1..Len(chars) :
               /\ Right(chars[i].kand) <= atlas.width
               /\ Bottom(chars[i].kand) <= atlas.height

\* The atlas of a build whose copy step went through for every glyph.
AtlasBuilt ==
    /\ atlas.exists
    /\ Len(atlas.layers) = Len(chars)
    /\ Len(chars) = Cardinality(DOMAIN chars_data)

EdgeXs == UNION {{chars[k].kand.start_x, Right(chars[k].kand) - 1,
                  Right(chars[k].kand)} : k \in 1..Len(chars)}
EdgeYs == UNION {{chars[k].kand.start_y, Bottom(chars[k].kand) - 1,
                  Bottom(chars[k].kand)} : k \in 1..Len(chars)}

\* The columns and rows of a glyph at which the owner of an atlas pixel can
\* change: its own borders and every border of another rectangle.
SampleColumns(kand) ==
    {c - kand.start_x : c \in {e \in EdgeXs :
        kand.start_x <= e /\ e < Right(kand)}}
SampleRows(kand) ==
    {r - kand.start_y : r \in {e \in EdgeYs :
        kand.start_y <= e /\ e < Bottom(kand)}}

SliceReproduces(item) ==
    LET kand == item.kand
        view == Crop(atlas, kand)
        orig == chars_data[kand.char]
    IN  /\ view.width = Pool[orig.image].image.width
        /\ view.height = Pool[orig.image].image.height
        /\ \A i \in SampleColumns(kand) : \A j \in SampleRows(kand) :
               SectionPixel(atlas, view, i, j) = ImagePixel(orig.image, i, j)
        /\ kand.unk1 = orig.xalign
        /\ kand.unk2 = orig.yalign
        /\ kand.distance = orig.distance
        /\ kand.unk4 = orig.unk4
        /\ kand.unk5 = orig.unk5

\* C2: slicing the atlas build produced with the records it produced gives
\* back every glyph's bitmap (size and pixels) and every record carries the
\* glyph's char code, bearings, advance and reserved fields.
C2_SliceOfPackRoundTrip ==
    AtlasBuilt =>
        /\ {chars[k].kand.char : k \in 1..Len(chars)} = DOMAIN chars_data
        /\ \A k \in 1..Len(chars) : SliceReproduces(chars[k])

C2_Witness ==
    /\ AtlasBuilt
    /\ result = "ok"
    /\ Len(chars) = 3
    /\ chars[3].kand.start_y > 0
    /\ chars[2].kand.start_x > 0
    /\ chars[2].kand.unk1 < 0

\* C3: decoding the name that generate's format writes for a metadata tuple
\* succeeds and yields exactly that tuple.
C3_CodecRoundTrip ==
    c_pc = "done" => (c_out.ok /\ c_out.meta = c_meta)

C3_Witness ==
    /\ c_pc = "done"
    /\ c_meta.unk1 < 0
    /\ c_meta.char = U16Top
    /\ c_out.ok

\* The smallest multiple of 8 that is >= v.
Ceil8(v) == ((v + 7) \div 8) * 8

Widest == IF chars = <<>> THEN 0
          ELSE SetMax({chars[k].kand.glyth_width : k \in 1..Len(chars)})
RowBottom == IF chars = <<>> THEN 0
             ELSE SetMax({Bottom(chars[k].kand) : k \in 1..Len(chars)})

\* C4: the atlas width and height are multiples of 8, the width the
\* smallest one >= max(512, widest glyph) and the height the smallest one
\* >= the lowest y any glyph reaches.
C4_AtlasDimensions ==
    atlas.exists =>
        /\ atlas.width % 8 = 0
        /\ atlas.height % 8 = 0
        /\ atlas.width = Ceil8(Max2(NominalWidth, Widest))
        /\ atlas.height = Ceil8(RowBottom)

\* C5: build on an empty directory neither crashes nor underflows and
\* creates an atlas of 512 x 0.
C5_EmptyBuild ==
    (dir = {} /\ pc \notin {"setup", "scan", "pack"}) =>
        /\ result # "panic"
        /\ ~wrapped
        /\ atlas.exists
        /\ atlas.width = NominalWidth
        /\ atlas.height = 0

PoolDecoded == [f \in PoolIds |-> DecodeFileName(Pool[f].name)]

\* Two files of the directory decode to the same character code.
DuplicateInDir ==
    \E f, g \in dir :
        /\ f # g
        /\ PoolDecoded[f].ok
        /\ PoolDecoded[g].ok
        /\ PoolDecoded[f].meta.char = PoolDecoded[g].meta.char

\* C6: with two files of the same character code in the directory, build
\* never gets past the scan, ends with an error raised in the scan, and
\* creates no output file.
C6_DuplicateAbortsBeforeOutput ==
    DuplicateInDir =>
        /\ pc \in {"setup", "scan", "done"}
        /\ files = {}
        /\ ~atlas.exists
        /\ chars = <<>>
        /\ pc = "done" => (result = "err" /\ err_at = "scan")

C6_Witness ==
    /\ DuplicateInDir
    /\ pc = "done"
    /\ err = "Duplicate"
    /\ Cardinality(dir) = 3

\* C7: a run of build, generate or from_truetype that ends with an error
\* leaves no output file behind.
C7_NoPartialOutput ==
    /\ result = "err" => files = {}
    /\ g_result = "err" => g_out = {}
    /\ t_result = "err" => t_out = {}

RectExceeds(img, ch) ==
    \/ ch.start_x + ch.glyth_width > img.width
    \/ ch.start_y + ch.glyth_height > img.height

\* C8: a record whose rectangle exceeds the atlas makes generate fail, and
\* no glyph image is written for it.
C8_OutOfBoundsRejected ==
    \A k \in 1..Len(g_kand) :
        RectExceeds(g_image, g_kand[k]) =>
            /\ \A o \in g_out : o.from # k
            /\ g_next > k => g_result = "err"

\* The decimal value of a run of digits.
RECURSIVE DigitsValue(_)
DigitsValue(ds) ==
    IF ds = <<>> THEN 0
    ELSE DigitsValue(SubSeq(ds, 1, Len(ds) - 1)) * 10 + DigitValue(ds[Len(ds)])

AllDigits(ds) == ds # <<>> /\ \A i \in 1..Len(ds) : IsDigit(ds[i])

\* The token is the text of a base-10 integer, with or without a sign.
IsIntegerText(tok) ==
    \/ AllDigits(tok)
    \/ (tok # <<>> /\ Head(tok) \in {"+", "-"} /\ AllDigits(Tail(tok)))

IntegerTextValue(tok) ==
    IF Head(tok) = "-" THEN -DigitsValue(Tail(tok))
    ELSE IF Head(tok) = "+" THEN DigitsValue(Tail(tok))
    ELSE DigitsValue(tok)

\* The token is the plain decimal text of an integer: no '+', no leading
\* zero, no "-0".
IsPlainIntegerText(tok) ==
    \/ tok = <<"0">>
    \/ (AllDigits(tok) /\ Head(tok) # "0")
    \/ (tok # <<>> /\ Head(tok) = "-" /\ AllDigits(Tail(tok))
            /\ Head(Tail(tok)) # "0")

FieldLow(i) == IF i \in {2, 3} THEN I16Low ELSE 0
FieldTop(i) == IF i \in {2, 3} THEN I16Top ELSE U16Top

TokenOutOfSchema(tok, i) ==
    \/ ~IsIntegerText(tok)
    \/ IntegerTextValue(tok) < FieldLow(i)
    \/ IntegerTextValue(tok) > FieldTop(i)

TokenInSchema(tok, i) ==
    /\ IsPlainIntegerText(tok)
    /\ IntegerTextValue(tok) >= FieldLow(i)
    /\ IntegerTextValue(tok) <= FieldTop(i)

LastTokens == Split(FileStem(Pool[last_file].name))

MalformedStem(tokens) ==
    \/ Len(tokens) < 6
    \/ \E i \in 1..6 : TokenOutOfSchema(tokens[i], i)

WellFormedStem(tokens) ==
    /\ Len(tokens) = 6
    /\ \A i \in 1..6 : TokenInSchema(tokens[i], i)

\* C9: a file whose stem has fewer than six tokens, or a token among the
\* six that is no base-10 integer of its field's range, makes build fail
\* with the malformed-name error before the glyph enters the glyph set; a
\* stem of six in-range tokens is never rejected as malformed.
C9_MalformedNameRejected ==
    last_file # 0 =>
        /\ MalformedStem(LastTokens) =>
               /\ result = "err"
               /\ err = "MalformedName"
               /\ \A c \in DOMAIN chars_data : chars_data[c].image # last_file
        /\ WellFormedStem(LastTokens) => err # "MalformedName"

C9_Witness ==
    /\ last_file # 0
    /\ Len(LastTokens) >= 6
    /\ MalformedStem(LastTokens)
    /\ err = "MalformedName"
    /\ \E f \in dir : f # last_file /\ f \notin unread
                        /\ WellFormedStem(Split(FileStem(Pool[f].name)))

\* The greedy row fold in unbounded integers: the placements of a sequence
\* of glyph sizes from cursor (px, py) and row bottom `bottom`.
RECURSIVE GreedyRows(_, _, _, _)
GreedyRows(glyphs, px, py, bottom) ==
    IF glyphs = <<>> THEN <<>>
    ELSE LET g == Head(glyphs)
             wrap == px + g.glyth_width >= NominalWidth
             x == IF wrap THEN 0 ELSE px
             y == IF wrap THEN bottom ELSE py
         IN  <<[start_x |-> x, start_y |-> y]>>
                 \o GreedyRows(Tail(glyphs), x + g.glyth_width, y,
                               Max2(bottom, y + g.glyth_height))

GlyphsInOrder ==
    LET codes == SortedSeq(DOMAIN chars_data) IN
    [k \in 1..Len(codes) |-> chars_data[codes[k]]]

\* C10: the placements build assigns are those of the greedy row fold over
\* the glyphs in ascending char code order, and every glyph gets one.
C10_GreedyRowFold ==
    /\ \A k \in 1..Len(chars) :
           LET ref == GreedyRows(GlyphsInOrder, 0, 0, 0)[k] IN
           /\ chars[k].kand.start_x = ref.start_x
           /\ chars[k].kand.start_y = ref.start_y
    /\ pc \in {"copy", "write_dic", "write_img"} =>
           Len(chars) = Cardinality(DOMAIN chars_data)

====
